---- MODULE Spec2Model ----
(***************************************************************************)
(* MommyAssist: the risk scoring engine (assessRisk) and the REST handlers *)
(* of server/routes.ts over the tables of shared/schema.ts, accessed       *)
(* through server/storage.ts.                                              *)
(***************************************************************************)
EXTENDS Integers, Sequences, FiniteSets, TLC

VARIABLES
  data, riskLevel, riskFactors, recommendations, pc,      \* one evaluation of assessRisk
  returned,                                               \* what the calls of assessRisk returned, in order
  users, sessions,                                        \* users table, authenticated identities
  ancAppointments, riskAssessments, immunizations,        \* owned tables, keyed by generated id
  communityPosts, communityComments,
  nextId,                                                 \* ids handed out so far
  inflight,                                               \* POST /api/risk-assessments requests being handled
  res,                                                    \* status of the last response sent
  json,                                                   \* body of the last response sent, where a route's claim reads it
  created,                                                \* per record id: who created it and with what
  client                                                  \* the risk-assessment page in the browser

engineVars == <<data, riskLevel, riskFactors, recommendations, pc, returned>>
tableVars == <<ancAppointments, riskAssessments, immunizations, communityPosts, communityComments>>
apiVars == <<users, sessions, ancAppointments, riskAssessments, immunizations,
             communityPosts, communityComments, nextId, inflight, res, json, created>>
vars == <<data, riskLevel, riskFactors, recommendations, pc, returned,
          users, sessions, ancAppointments, riskAssessments, immunizations,
          communityPosts, communityComments, nextId, inflight, res, json, created, client>>

----------------------------------------------------------------------------
(* Bounds *)
MaxWeight == 4
MaxWeeks == 4
MaxRecords == 2
MaxInflight == 1
MaxCalls == 3
MaxConcurrent == 2

----------------------------------------------------------------------------
(* JavaScript values.  A value carries its type tag; a string is the       *)
(* sequence of its characters, an array the sequence of its elements.      *)
(* An object is a function from its keys to values; a missing key reads    *)
(* as undefined.                                                           *)
undefined == [t |-> "undefined", s |-> <<>>, n |-> 0]
null == [t |-> "null", s |-> <<>>, n |-> 0]
Str(chars) == [t |-> "string", s |-> chars, n |-> 0]
Num(k) == [t |-> "number", s |-> <<>>, n |-> k]
Arr(elems) == [t |-> "array", s |-> elems, n |-> 0]
NaN == [t |-> "NaN", s |-> <<>>, n |-> 0]
Date(k) == [t |-> "date", s |-> <<>>, n |-> k]

EmptyObject == [k \in {} |-> undefined]

Get(obj, key) == IF key \in DOMAIN obj THEN obj[key] ELSE undefined

\* { ...a, ...b }: the keys of both, b's value winning
Spread(a, b) == [k \in DOMAIN a \cup DOMAIN b |-> IF k \in DOMAIN b THEN b[k] ELSE a[k]]

\* JavaScript truthiness: undefined, null, "", 0 and NaN are falsy
Truthy(v) ==
  CASE v.t = "string" -> v.s # <<>>
    [] v.t = "number" -> v.n # 0
    [] v.t = "array" -> TRUE
    [] OTHER -> FALSE

\* String.prototype.includes: sub occurs in chars as a contiguous run
includes(chars, sub) ==
  \E i \in 0..(Len(chars) - Len(sub)) : SubSeq(chars, i + 1, i + Len(sub)) = sub

UpperCase == <<"A","B","C","D","E","F","G","H","I","J","K","L","M",
               "N","O","P","Q","R","S","T","U","V","W","X","Y","Z">>
LowerCase == <<"a","b","c","d","e","f","g","h","i","j","k","l","m",
               "n","o","p","q","r","s","t","u","v","w","x","y","z">>

\* String.prototype.toLowerCase, character by character
toLowerCase(chars) ==
  [i \in DOMAIN chars |->
     IF \E j \in DOMAIN UpperCase : UpperCase[j] = chars[i]
     THEN LowerCase[CHOOSE j \in DOMAIN UpperCase : UpperCase[j] = chars[i]]
     ELSE chars[i]]

Digits == <<"0","1","2","3","4","5","6","7","8","9">>
IsDigit(c) == \E j \in DOMAIN Digits : Digits[j] = c
DigitValue(c) == (CHOOSE j \in DOMAIN Digits : Digits[j] = c) - 1

RECURSIVE ParseDigits(_)
ParseDigits(chars) ==
  IF chars = <<>> THEN 0
  ELSE 10 * ParseDigits(SubSeq(chars, 1, Len(chars) - 1)) + DigitValue(chars[Len(chars)])

\* ToNumber, as applied by the relational operator > to a non-number operand
ToNumber(v) ==
  CASE v.t = "number" -> v
    [] v.t = "string" -> IF \A i \in DOMAIN v.s : IsDigit(v.s[i]) THEN Num(ParseDigits(v.s)) ELSE NaN
    [] v.t = "null" -> Num(0)
    [] OTHER -> NaN

----------------------------------------------------------------------------
(* Texts *)
high == <<"h","i","g","h">>
t140 == <<"1","4","0">>
bleeding == <<"b","l","e","e","d","i","n","g">>
reduced == <<"reduced">>

HighBloodPressure == "High blood pressure"
ExcessiveWeightGain == "Excessive weight gain"
ReducedFetalMovement == "Reduced fetal movement"
BleedingSymptoms == "Bleeding symptoms"

RecommendHigh == "Please contact your healthcare provider immediately and schedule an urgent appointment."
RecommendMedium == "Monitor symptoms closely and schedule a follow-up appointment within the week."
RecommendLow == "Continue with regular prenatal care and maintain healthy habits."

----------------------------------------------------------------------------
(* assessRisk.  An evaluation state is the pair of locals (riskLevel,      *)
(* riskFactors) plus threw, set when a statement raises a TypeError.       *)
(* Numbers are compared in quarter kilograms, so that 0.5 * weeks and      *)
(* expectedWeight * 1.5 are exact.                                         *)

\* EvalStart, had riskFactors been an array declared outside the function
EvalStartShared == [riskLevel |-> "low", riskFactors |-> riskFactors, threw |-> FALSE]

\* EvalStart, had the level started at "medium"
EvalStartMedium == [riskLevel |-> "medium", riskFactors |-> <<>>, threw |-> FALSE]

EvalStart == [riskLevel |-> "low", riskFactors |-> <<>>, threw |-> FALSE]

\* data.bloodPressure && (data.bloodPressure.includes("high") || data.bloodPressure.includes("140"))
bloodPressureTest(chars) == includes(chars, high) \/ includes(chars, t140)

\* the condition of line 306, for a value that has an includes method
bloodPressureTriggers(d) ==
  LET bp == Get(d, "bloodPressure") IN
  /\ Truthy(bp)
  /\ \/ bp.t = "string" /\ bloodPressureTest(bp.s)
     \/ bp.t = "array" /\ \E i \in DOMAIN bp.s : bp.s[i] \in {"high", "140"}

\* bloodPressureRule, had the text been lower-cased before matching
bloodPressureRuleAnyCase(d, st) ==
  LET bp == Get(d, "bloodPressure") IN
  IF st.threw \/ ~Truthy(bp) THEN st
  ELSE IF bp.t \notin {"string", "array"} THEN [st EXCEPT !.threw = TRUE]
  ELSE IF bp.t = "string" /\ bloodPressureTest(toLowerCase(bp.s))
       THEN [st EXCEPT !.riskFactors = Append(@, HighBloodPressure), !.riskLevel = "high"]
       ELSE st

\* bloodPressureRule, had it recorded the factor without raising the level
bloodPressureRuleNoLevel(d, st) ==
  LET bp == Get(d, "bloodPressure") IN
  IF st.threw \/ ~Truthy(bp) THEN st
  ELSE IF bp.t \notin {"string", "array"} THEN [st EXCEPT !.threw = TRUE]
  ELSE IF bloodPressureTriggers(d)
       THEN [st EXCEPT !.riskFactors = Append(@, HighBloodPressure)]
       ELSE st

bloodPressureRule(d, st) ==
  LET bp == Get(d, "bloodPressure") IN
  IF st.threw \/ ~Truthy(bp) THEN st
  ELSE IF bp.t \notin {"string", "array"} THEN [st EXCEPT !.threw = TRUE]
  ELSE IF bloodPressureTriggers(d)
       THEN [st EXCEPT !.riskFactors = Append(@, HighBloodPressure), !.riskLevel = "high"]
       ELSE st

\* 0.5 * data.pregnancyWeeks, in quarter kilograms
expectedWeight(weeks) == 2 * weeks

\* data.weight > expectedWeight * 1.5, both sides in quarter kilograms
weightTest(weight, weeks) ==
  LET w == ToNumber(weight)
      p == ToNumber(weeks) IN
  /\ w.t = "number"
  /\ p.t = "number"
  /\ 4 * w.n > (expectedWeight(p.n) * 3) \div 2

\* the conditions of lines 311 and 314
weightTriggers(d) ==
  /\ Truthy(Get(d, "weight"))
  /\ Truthy(Get(d, "pregnancyWeeks"))
  /\ weightTest(Get(d, "weight"), Get(d, "pregnancyWeeks"))

\* weightRule, had it assigned "medium" without looking at the level reached
weightRuleAlwaysMedium(d, st) ==
  IF st.threw THEN st
  ELSE IF weightTriggers(d)
       THEN [st EXCEPT !.riskFactors = Append(@, ExcessiveWeightGain), !.riskLevel = "medium"]
       ELSE st

\* weightRule, had it put its factor at the front of the list (unshift)
weightRuleUnshift(d, st) ==
  IF st.threw THEN st
  ELSE IF weightTriggers(d)
       THEN [st EXCEPT !.riskFactors = <<ExcessiveWeightGain>> \o @,
                       !.riskLevel = IF st.riskLevel = "high" THEN "high" ELSE "medium"]
       ELSE st

weightRule(d, st) ==
  IF st.threw THEN st
  ELSE IF weightTriggers(d)
       THEN [st EXCEPT !.riskFactors = Append(@, ExcessiveWeightGain),
                       !.riskLevel = IF st.riskLevel = "high" THEN "high" ELSE "medium"]
       ELSE st

\* the condition of line 320
babyMovementTriggers(d) == Get(d, "babyMovement") = Str(reduced)

\* babyMovementRule, had it raised the level without recording the factor
babyMovementRuleNoPush(d, st) ==
  IF st.threw THEN st
  ELSE IF babyMovementTriggers(d)
       THEN [st EXCEPT !.riskLevel = "high"]
       ELSE st

\* babyMovementRule, had it raised the level the way the weight rule does
babyMovementRuleMedium(d, st) ==
  IF st.threw THEN st
  ELSE IF babyMovementTriggers(d)
       THEN [st EXCEPT !.riskFactors = Append(@, ReducedFetalMovement),
                       !.riskLevel = IF st.riskLevel = "high" THEN "high" ELSE "medium"]
       ELSE st

\* babyMovementRule, had "none" (no movement) counted as reduced movement
babyMovementRuleNone(d, st) ==
  IF st.threw THEN st
  ELSE IF Get(d, "babyMovement") \in {Str(reduced), Str(<<"none">>)}
       THEN [st EXCEPT !.riskFactors = Append(@, ReducedFetalMovement), !.riskLevel = "high"]
       ELSE st

babyMovementRule(d, st) ==
  IF st.threw THEN st
  ELSE IF babyMovementTriggers(d)
       THEN [st EXCEPT !.riskFactors = Append(@, ReducedFetalMovement), !.riskLevel = "high"]
       ELSE st

\* the condition of line 325, for a value that has a toLowerCase method
symptomsTriggers(d) ==
  LET sy == Get(d, "symptoms") IN
  Truthy(sy) /\ sy.t = "string" /\ includes(toLowerCase(sy.s), bleeding)

\* symptomsRule, had the text been matched as supplied
symptomsRuleCaseSensitive(d, st) ==
  LET sy == Get(d, "symptoms") IN
  IF st.threw \/ ~Truthy(sy) THEN st
  ELSE IF sy.t # "string" THEN [st EXCEPT !.threw = TRUE]
  ELSE IF includes(sy.s, bleeding)
       THEN [st EXCEPT !.riskFactors = Append(@, BleedingSymptoms), !.riskLevel = "high"]
       ELSE st

\* symptomsRule, without the data.symptoms && guard: toLowerCase of a
\* missing or empty-checked value is called unconditionally
symptomsRuleUnguarded(d, st) ==
  LET sy == Get(d, "symptoms") IN
  IF st.threw THEN st
  ELSE IF sy.t # "string" THEN [st EXCEPT !.threw = TRUE]
  ELSE IF includes(toLowerCase(sy.s), bleeding)
       THEN [st EXCEPT !.riskFactors = Append(@, BleedingSymptoms), !.riskLevel = "high"]
       ELSE st

symptomsRule(d, st) ==
  LET sy == Get(d, "symptoms") IN
  IF st.threw \/ ~Truthy(sy) THEN st
  ELSE IF sy.t # "string" THEN [st EXCEPT !.threw = TRUE]
  ELSE IF symptomsTriggers(d)
       THEN [st EXCEPT !.riskFactors = Append(@, BleedingSymptoms), !.riskLevel = "high"]
       ELSE st

\* selectRecommendations, without the branch for "medium"
selectRecommendationsNoMedium(level) ==
  IF level = "high" THEN RecommendHigh ELSE RecommendLow

selectRecommendations(level) ==
  IF level = "high" THEN RecommendHigh
  ELSE IF level = "medium" THEN RecommendMedium
  ELSE RecommendLow

\* the whole call: the four rules in source order, then the recommendation
assessRisk(d) ==
  LET st == symptomsRule(d, babyMovementRule(d, weightRule(d, bloodPressureRule(d, EvalStart)))) IN
  [threw |-> st.threw,
   riskLevel |-> st.riskLevel,
   riskFactors |-> st.riskFactors,
   recommendations |-> selectRecommendations(st.riskLevel)]

----------------------------------------------------------------------------
(* Inputs of the declared type of assessRisk's parameter *)
BloodPressureTexts ==
  { <<>>,
    <<"1","4","0","/","9","0"," ","h","i","g","h">>,
    <<"H","i","g","h">>,
    <<"1","2","0","/","8","0">>,
    <<"h","i","g","h">>,
    <<"9","0","/","1","4","0">>,
    <<"1","4"," ","0"," ","h","i","g">> }

SymptomTexts ==
  { <<>>,
    <<"H","e","a","v","y"," ","B","l","e","e","d","i","n","g"," ","t","o","d","a","y">>,
    <<"b","l","e","e","d","i","n","g">>,
    <<"n","a","u","s","e","a">>,
    <<"B","L","E","E","D","I","N","G">>,
    <<"b","l","e","e","d">> }

BabyMovements == { <<"active">>, <<"normal">>, <<"reduced">>, <<"none">>, <<"Reduced">> }

Weights == (0 - 1)..MaxWeight
Weeks == 0..MaxWeeks

\* every object over a choice of supplied keys
Optional(key, values) == {EmptyObject} \cup {[k \in {key} |-> v] : v \in values}

EngineInputs ==
  { Spread(Spread(Spread(Spread(b, w), m), s), p) :
      b \in Optional("bloodPressure", {Str(x) : x \in BloodPressureTexts}),
      w \in Optional("weight", {Num(x) : x \in Weights}),
      m \in Optional("babyMovement", {Str(x) : x \in BabyMovements}),
      s \in Optional("symptoms", {Str(x) : x \in SymptomTexts}),
      p \in Optional("pregnancyWeeks", {null} \cup {Num(x) : x \in Weeks}) }

----------------------------------------------------------------------------
(* State of the server before any request *)
NoRow == [exists |-> FALSE, pregnancyWeeks |-> null]
UserIds == {"u1", "u2"}
EmptyTable == [k \in {} |-> 0]

ApiInit ==
  /\ users = [u \in UserIds |-> NoRow]
  /\ sessions = {}
  /\ ancAppointments = EmptyTable
  /\ riskAssessments = EmptyTable
  /\ immunizations = EmptyTable
  /\ communityPosts = EmptyTable
  /\ communityComments = EmptyTable
  /\ nextId = 0
  /\ inflight = EmptyTable
  /\ res = 0
  /\ json = undefined
  /\ created = EmptyTable

----------------------------------------------------------------------------
(* The risk-assessment page in the browser: RiskAssessmentPage *)

\* the cached queries the mutation names: the page's own list, and Home's latest
QueryKeys == {"/api/risk-assessments", "/api/risk-assessments/latest"}

\* what POST /api/risk-assessments answers
Statuses == {201, 400, 401, 500}

\* the page as mounted: useState(false), no mutation run, nothing invalidated
ClientPage ==
  [location |-> "/risk-assessment", isFormVisible |-> FALSE, mutation |-> "idle",
   stale |-> {}, toasts |-> "", effects |-> <<>>, timer |-> FALSE]

ClientInit == client = ClientPage

\* queryClient.invalidateQueries({ queryKey: [key] })
invalidateQueries(c, key) ==
  [c EXCEPT !.stale = @ \cup {key}, !.effects = Append(@, <<"invalidateQueries", key>>)]

setIsFormVisible(c, visible) ==
  [c EXCEPT !.isFormVisible = visible,
            !.effects = Append(@, <<"setIsFormVisible", IF visible THEN "true" ELSE "false">>)]

toast(c, title) ==
  [c EXCEPT !.toasts = title, !.effects = Append(@, <<"toast", title>>)]

\* setTimeout(() => { window.location.href = "/api/login" }, 500)
setTimeout(c) == [c EXCEPT !.timer = TRUE, !.effects = Append(@, <<"setTimeout", "/api/login">>)]

\* the mutation settles and its callback starts with no effect made yet
settled(c, state) == [c EXCEPT !.mutation = state, !.effects = <<>>]

isUnauthorizedError(status) == status = 401

\* the buttons "Start Assessment" and "New Assessment"
ShowForm ==
  /\ client.location = "/risk-assessment"
  /\ ~client.isFormVisible
  /\ client' = [client EXCEPT !.isFormVisible = TRUE]
  /\ UNCHANGED <<engineVars, apiVars>>

\* the button "Cancel"
CancelForm ==
  /\ client.location = "/risk-assessment"
  /\ client.isFormVisible
  /\ client' = [client EXCEPT !.isFormVisible = FALSE]
  /\ UNCHANGED <<engineVars, apiVars>>

\* the form's submit, disabled while the mutation is pending
handleSubmit ==
  /\ client.location = "/risk-assessment"
  /\ client.isFormVisible
  /\ client.mutation # "pending"
  /\ client' = [client EXCEPT !.mutation = "pending"]
  /\ UNCHANGED <<engineVars, apiVars>>

\* onSuccess, had it invalidated the page's own list only
onSuccessListOnly ==
  /\ client.location = "/risk-assessment"
  /\ client.mutation = "pending"
  /\ client' = toast(setIsFormVisible(
                 invalidateQueries(settled(client, "success"), "/api/risk-assessments"),
                 FALSE), "Assessment Complete")
  /\ UNCHANGED <<engineVars, apiVars>>

\* the response is 201: onSuccess of createAssessmentMutation
onSuccess ==
  /\ client.location = "/risk-assessment"
  /\ client.mutation = "pending"
  /\ client' = toast(setIsFormVisible(
                 invalidateQueries(
                   invalidateQueries(settled(client, "success"), "/api/risk-assessments"),
                   "/api/risk-assessments/latest"),
                 FALSE), "Assessment Complete")
  /\ UNCHANGED <<engineVars, apiVars>>

\* the response is not ok: onError of createAssessmentMutation
onError(status) ==
  /\ client.location = "/risk-assessment"
  /\ client.mutation = "pending"
  /\ status # 201
  /\ client' = IF isUnauthorizedError(status)
               THEN setTimeout(toast(settled(client, "error"), "Unauthorized"))
               ELSE toast(settled(client, "error"), "Error")
  /\ UNCHANGED <<engineVars, apiVars>>

\* a view reading an invalidated key fetches it again
Refetch(key) ==
  /\ client.location = "/risk-assessment"
  /\ key \in client.stale
  /\ client' = [client EXCEPT !.stale = @ \ {key}]
  /\ UNCHANGED <<engineVars, apiVars>>

\* the timer fires: the browser leaves the page for the sign-in
Redirect ==
  /\ client.location = "/risk-assessment"
  /\ client.timer
  /\ client' = [client EXCEPT !.location = "/api/login", !.timer = FALSE]
  /\ UNCHANGED <<engineVars, apiVars>>

----------------------------------------------------------------------------
(* One evaluation of assessRisk, statement by statement *)
EngineInit ==
  /\ data \in EngineInputs
  /\ riskLevel = "none"
  /\ riskFactors = <<>>
  /\ recommendations = ""
  /\ pc = "rule1"
  /\ returned = <<>>
  /\ ApiInit
  /\ ClientInit

Locals == [riskLevel |-> riskLevel, riskFactors |-> riskFactors, threw |-> FALSE]

Step(from, to, st) ==
  /\ pc = from
  /\ pc' = IF st.threw THEN "threw" ELSE to
  /\ riskLevel' = st.riskLevel
  /\ riskFactors' = st.riskFactors
  /\ UNCHANGED <<data, recommendations, returned>>
  /\ UNCHANGED <<apiVars, client>>

Rule1 == Step("rule1", "rule2", EvalStart)
Rule2 == Step("rule2", "rule3", bloodPressureRule(data, Locals))
Rule3 == Step("rule3", "rule4", weightRule(data, Locals))
Rule4 == Step("rule4", "rule5", babyMovementRule(data, Locals))
Rule5 == Step("rule5", "rule6", symptomsRule(data, Locals))
Rule6 ==
  /\ pc = "rule6"
  /\ pc' = "done"
  /\ recommendations' = selectRecommendations(riskLevel)
  /\ returned' = Append(returned, [data |-> data, riskLevel |-> riskLevel, riskFactors |-> riskFactors,
                                    recommendations |-> recommendations'])
  /\ UNCHANGED <<data, riskLevel, riskFactors>>
  /\ UNCHANGED <<apiVars, client>>

EngineNext == Rule1 \/ Rule2 \/ Rule3 \/ Rule4 \/ Rule5 \/ Rule6

EngineSpec == EngineInit /\ [][EngineNext]_vars

(* Calls of assessRisk one after another, each with an input of its own.   *)
(* riskLevel and riskFactors are whatever the previous call left until the *)
(* declarations of lines 303-304 run.                                      *)
CallInputs ==
  { EmptyObject,
    [bloodPressure |-> Str(<<"1","4","0","/","9","0"," ","h","i","g","h">>)],
    [bloodPressure |-> Str(<<"H","i","g","h">>)],
    [weight |-> Num(MaxWeight), pregnancyWeeks |-> Num(1)],
    [weight |-> Num(1), pregnancyWeeks |-> Num(MaxWeeks)],
    [babyMovement |-> Str(<<"reduced">>), symptoms |-> Str(<<"b","l","e","e","d","i","n","g">>)],
    [babyMovement |-> Str(<<"active">>), weight |-> Num(MaxWeight), pregnancyWeeks |-> Num(1)],
    [symptoms |-> Str(<<"B","L","E","E","D","I","N","G">>), weight |-> Num(MaxWeight),
     pregnancyWeeks |-> Num(1)] }

Call(d) ==
  /\ pc \in {"idle", "done", "threw"}
  /\ Len(returned) < MaxCalls
  /\ data' = d
  /\ pc' = "rule1"
  /\ UNCHANGED <<riskLevel, riskFactors, recommendations, returned>>
  /\ UNCHANGED <<apiVars, client>>

CallNext ==
  \/ \E d \in CallInputs : Call(d)
  \/ Rule1 \/ Rule2 \/ Rule3 \/ Rule4 \/ Rule5 \/ Rule6


----------------------------------------------------------------------------
(* Request validation: the insert schemas drizzle-zod derives from the     *)
(* tables.  A schema lists, per accepted key, the type, whether the key is *)
(* required (a notNull column without default) and whether null is         *)
(* accepted (a column that is not notNull).  Keys outside the schema,      *)
(* among them the omitted ones, are stripped.  Of each table the columns   *)
(* kept are the owner, one required text column and the lifecycle column;  *)
(* the remaining required columns are taken as supplied and well-typed.    *)
Required(type) == [type |-> type, required |-> TRUE, nullable |-> FALSE]
Defaulted(type) == [type |-> type, required |-> FALSE, nullable |-> FALSE]
Nullable(type) == [type |-> type, required |-> FALSE, nullable |-> TRUE]

insertAncAppointmentSchema ==
  [userId |-> Required("string"), doctorName |-> Required("string"), status |-> Defaulted("string")]

insertRiskAssessmentSchema ==
  [userId |-> Required("string"), bloodPressure |-> Nullable("string"),
   weight |-> Nullable("number"), babyMovement |-> Nullable("string"),
   symptoms |-> Nullable("string"), riskLevel |-> Required("string"),
   riskFactors |-> Nullable("json"), recommendations |-> Nullable("string"),
   assessmentDate |-> Nullable("date")]

insertImmunizationSchema ==
  [userId |-> Required("string"), childName |-> Required("string"), status |-> Defaulted("string")]

insertCommunityPostSchema ==
  [userId |-> Required("string"), content |-> Required("string")]

insertCommunityCommentSchema ==
  [postId |-> Required("string"), userId |-> Required("string"), content |-> Required("string")]

\* schema.parse(obj): ok is FALSE where parse throws a ZodError
parse(schema, obj) ==
  LET Accepts(field, v) ==
        CASE v.t = "undefined" -> ~field.required
          [] v.t = "null" -> field.nullable
          [] field.type = "json" -> TRUE
          [] OTHER -> v.t = field.type
  IN [ok |-> \A k \in DOMAIN schema : Accepts(schema[k], Get(obj, k)),
      data |-> [k \in {j \in DOMAIN schema : Get(obj, j).t # "undefined"} |-> obj[k]]]

----------------------------------------------------------------------------
(* The tables.  A row is an object over the columns; ids are generated.    *)
Id(name) == Str(<<name>>)

ancAppointmentsDefaults == [status |-> Id("scheduled")]
immunizationsDefaults == [status |-> Id("pending")]
communityPostsDefaults == [likes |-> Num(0)]

\* now(), as the default of a timestamp column: insertions happen one at a
\* time and the clock has advanced between any two of them
now == Date(nextId + 1)
riskAssessmentsDefaults == [assessmentDate |-> now]

\* references(() => users.id) on a notNull column
ReferencesUser(v) ==
  v.t = "string" /\ \E u \in UserIds : v = Id(u) /\ users[u].exists

\* the text of the k-th generated id, as it appears in a path or a column
RecordIds == <<"r1", "r2", "r3", "r4", "r5", "r6">>
RecordId(k) == Id(RecordIds[k])

\* references(() => communityPosts.id)
ReferencesPost(v) == \E k \in DOMAIN communityPosts : v = RecordId(k)

\* .insert(table).values(row).returning(): the table with the row under a fresh id
Insert(table, row) == [k \in DOMAIN table \cup {nextId + 1} |-> IF k = nextId + 1 THEN row ELSE table[k]]

\* .delete(table).where(eq(table.id, id))
Delete(table, id) == [k \in DOMAIN table \ {id} |-> table[k]]

\* .update(table).set({ ...updates, updatedAt }): the columns named in updates are overwritten
Set(row, updates, columns) ==
  Spread(row, [k \in {j \in DOMAIN updates : j \in columns} |-> updates[k]])

Record(by, param, body, weeks, row) ==
  [by |-> by, param |-> param, body |-> body, pregnancyWeeks |-> weeks, row |-> row]

\* the owning references of a row
Owner(row) == [k \in DOMAIN row \cap {"userId", "postId"} |-> row[k]]

Remember(id, rec) == [k \in DOMAIN created \cup {id} |-> IF k = id THEN rec ELSE created[k]]

isAuthenticated(u) == u \in sessions

\* room for one more record, counting the inserts still to come
HasRoom == nextId + Cardinality(DOMAIN inflight) < MaxRecords

\* res.status(status).json(...), for the routes whose body is not looked at
Respond(status) == res' = status /\ json' = undefined

\* res.json(body)
RespondJson(body) == res' = 200 /\ json' = body

----------------------------------------------------------------------------
(* Sign-in and profile *)

\* the OIDC callback: a session for u, and upsertUser with the claims
Login(u) ==
  /\ u \notin sessions
  /\ sessions' = sessions \cup {u}
  /\ users' = [users EXCEPT ![u] = [@ EXCEPT !.exists = TRUE]]
  /\ Respond(200)
  /\ UNCHANGED <<tableVars, nextId, inflight, created>>
  /\ UNCHANGED <<engineVars, client>>

\* upsertUser: insert, or on a conflicting id overwrite the supplied columns
upsertUser(userData) ==
  LET target == CHOOSE u \in UserIds : Id(u) = userData.id IN
  [users EXCEPT ![target] =
     [exists |-> TRUE,
      pregnancyWeeks |-> IF "pregnancyWeeks" \in DOMAIN userData
                         THEN userData.pregnancyWeeks ELSE @.pregnancyWeeks]]

\* PATCH /api/auth/user
PatchUser(u, updates) ==
  /\ isAuthenticated(u)
  /\ LET userData == Spread([id |-> Id(u)], updates) IN
     IF \E t \in UserIds : Id(t) = userData.id
     THEN users' = upsertUser(userData) /\ Respond(200)
     ELSE UNCHANGED users /\ Respond(200)   \* a row inserted under an id outside UserIds
  /\ UNCHANGED <<sessions, tableVars, nextId, inflight, created>>
  /\ UNCHANGED <<engineVars, client>>

----------------------------------------------------------------------------
(* POST /api/risk-assessments, one action per statement that awaits *)

\* engineInput, had the body been spread after pregnancyWeeks
engineInputBodyLast(body, weeks) == Spread([pregnancyWeeks |-> weeks], body)

\* the object given to assessRisk (lines 459-462)
engineInput(body, weeks) == Spread(body, [pregnancyWeeks |-> weeks])

\* what assessRisk returns, as JavaScript values
AsValues(analysis) ==
  [riskLevel |-> Id(analysis.riskLevel),
   riskFactors |-> Arr(analysis.riskFactors),
   recommendations |-> Id(analysis.recommendations)]

\* assessmentInput, had the body been spread after the derived fields
assessmentInputBodyLast(body, userId, analysis) ==
  Spread(Spread([userId |-> Id(userId)], AsValues(analysis)), body)

\* the object given to insertRiskAssessmentSchema.parse (lines 464-470)
assessmentInput(body, userId, analysis) ==
  Spread(body, Spread([userId |-> Id(userId)], AsValues(analysis)))

NoAnalysis == [threw |-> FALSE, riskLevel |-> "", riskFactors |-> <<>>, recommendations |-> ""]

FreeSlot(limit) == CHOOSE k \in 1..limit : k \notin DOMAIN inflight /\ \A j \in 1..(k - 1) : j \in DOMAIN inflight

Finish(slot) == inflight' = [k \in DOMAIN inflight \ {slot} |-> inflight[k]]

\* lines 455-456: the request arrives and getUser reads the users table
RiskGetUser(u, body, limit) ==
  /\ isAuthenticated(u)
  /\ Cardinality(DOMAIN inflight) < limit
  /\ HasRoom
  /\ LET slot == FreeSlot(limit)
         request == [userId |-> u, body |-> body, pc |-> "assessRisk",
                     pregnancyWeeks |-> IF users[u].exists THEN users[u].pregnancyWeeks ELSE undefined,
                     riskAnalysis |-> NoAnalysis,
                     assessmentData |-> EmptyObject]
     IN inflight' = [k \in DOMAIN inflight \cup {slot} |-> IF k = slot THEN request ELSE inflight[k]]
  /\ UNCHANGED <<users, sessions, tableVars, nextId, res, json, created>>
  /\ UNCHANGED <<engineVars, client>>

\* RiskAssess, had the engine stored its result itself
RiskAssessPersisting(slot) ==
  /\ slot \in DOMAIN inflight
  /\ inflight[slot].pc = "assessRisk"
  /\ LET r == inflight[slot]
         riskAnalysis == assessRisk(engineInput(r.body, r.pregnancyWeeks)) IN
     IF riskAnalysis.threw
     THEN Finish(slot) /\ Respond(500) /\ UNCHANGED <<riskAssessments, nextId>>
     ELSE /\ inflight' = [inflight EXCEPT ![slot] = [@ EXCEPT !.pc = "parse", !.riskAnalysis = riskAnalysis]]
          /\ riskAssessments' = Insert(riskAssessments,
                Spread([userId |-> Id(r.userId), assessmentDate |-> now], AsValues(riskAnalysis)))
          /\ nextId' = nextId + 1
          /\ UNCHANGED <<res, json>>
  /\ UNCHANGED <<users, sessions, ancAppointments, immunizations, communityPosts, communityComments, created>>
  /\ UNCHANGED <<engineVars, client>>

\* lines 459-462: assessRisk on the raw body; a TypeError is answered with 500
RiskAssess(slot) ==
  /\ slot \in DOMAIN inflight
  /\ inflight[slot].pc = "assessRisk"
  /\ LET r == inflight[slot]
         riskAnalysis == assessRisk(engineInput(r.body, r.pregnancyWeeks)) IN
     IF riskAnalysis.threw
     THEN Finish(slot) /\ Respond(500)
     ELSE /\ inflight' = [inflight EXCEPT ![slot] = [@ EXCEPT !.pc = "parse", !.riskAnalysis = riskAnalysis]]
          /\ UNCHANGED <<res, json>>
  /\ UNCHANGED <<users, sessions, tableVars, nextId, created>>
  /\ UNCHANGED <<engineVars, client>>

\* lines 464-470: validation; a ZodError is answered with 400
RiskParse(slot) ==
  /\ slot \in DOMAIN inflight
  /\ inflight[slot].pc = "parse"
  /\ LET r == inflight[slot]
         parsed == parse(insertRiskAssessmentSchema, assessmentInput(r.body, r.userId, r.riskAnalysis)) IN
     IF ~parsed.ok
     THEN Finish(slot) /\ Respond(400)
     ELSE /\ inflight' = [inflight EXCEPT ![slot] = [@ EXCEPT !.pc = "insert", !.assessmentData = parsed.data]]
          /\ UNCHANGED <<res, json>>
  /\ UNCHANGED <<users, sessions, tableVars, nextId, created>>
  /\ UNCHANGED <<engineVars, client>>

\* RiskInsert, had createRiskAssessment kept one row per user, replacing
\* the user's earlier row (onConflictDoUpdate, as upsertUser does)
RiskInsertUpsert(slot) ==
  /\ slot \in DOMAIN inflight
  /\ inflight[slot].pc = "insert"
  /\ LET r == inflight[slot]
         row == Spread(riskAssessmentsDefaults, r.assessmentData)
         others == [k \in {j \in DOMAIN riskAssessments : riskAssessments[j].userId # row.userId}
                      |-> riskAssessments[k]] IN
     IF ReferencesUser(r.assessmentData.userId)
     THEN /\ riskAssessments' = Insert(others, row)
          /\ nextId' = nextId + 1
          /\ created' = Remember(nextId + 1, Record(r.userId, undefined, r.body, r.pregnancyWeeks, row))
          /\ Respond(201)
     ELSE /\ UNCHANGED <<riskAssessments, nextId, created>>
          /\ Respond(500)
  /\ Finish(slot)
  /\ UNCHANGED <<users, sessions, ancAppointments, immunizations, communityPosts, communityComments>>
  /\ UNCHANGED <<engineVars, client>>

\* RiskInsert, had assessmentData been a variable shared by the requests in
\* flight: the row inserted is the one validated last
RiskInsertShared(slot) ==
  /\ slot \in DOMAIN inflight
  /\ inflight[slot].pc = "insert"
  /\ LET last == CHOOSE k \in DOMAIN inflight :
                   /\ inflight[k].pc = "insert"
                   /\ \A j \in DOMAIN inflight : inflight[j].pc = "insert" => j <= k
         r == inflight[last]
         row == Spread(riskAssessmentsDefaults, r.assessmentData) IN
     IF ReferencesUser(r.assessmentData.userId)
     THEN /\ riskAssessments' = Insert(riskAssessments, row)
          /\ nextId' = nextId + 1
          /\ created' = Remember(nextId + 1, Record(r.userId, undefined, r.body, r.pregnancyWeeks, row))
          /\ Respond(201)
     ELSE /\ UNCHANGED <<riskAssessments, nextId, created>>
          /\ Respond(500)
  /\ Finish(slot)
  /\ UNCHANGED <<users, sessions, ancAppointments, immunizations, communityPosts, communityComments>>
  /\ UNCHANGED <<engineVars, client>>

\* lines 472-473: createRiskAssessment inserts the row; answered with 201
RiskInsert(slot) ==
  /\ slot \in DOMAIN inflight
  /\ inflight[slot].pc = "insert"
  /\ LET r == inflight[slot]
         row == Spread(riskAssessmentsDefaults, r.assessmentData) IN
     IF ReferencesUser(r.assessmentData.userId)
     THEN /\ riskAssessments' = Insert(riskAssessments, row)
          /\ nextId' = nextId + 1
          /\ created' = Remember(nextId + 1, Record(r.userId, undefined, r.body, r.pregnancyWeeks, row))
          /\ Respond(201)
     ELSE /\ UNCHANGED <<riskAssessments, nextId, created>>
          /\ Respond(500)
  /\ Finish(slot)
  /\ UNCHANGED <<users, sessions, ancAppointments, immunizations, communityPosts, communityComments>>
  /\ UNCHANGED <<engineVars, client>>

----------------------------------------------------------------------------
(* GET /api/risk-assessments and GET /api/risk-assessments/latest *)

\* a row as it is selected: its columns and its id
Selected(id) == Spread(riskAssessments[id], [id |-> RecordId(id)])

\* .where(eq(riskAssessments.userId, userId))
whereUserId(userId) == {id \in DOMAIN riskAssessments : riskAssessments[id].userId = Id(userId)}

\* desc(riskAssessments.assessmentDate): in descending order PostgreSQL puts
\* a NULL before every value; a may come before b
desc(a, b) ==
  \/ a.assessmentDate.t = "null"
  \/ b.assessmentDate.t # "null" /\ a.assessmentDate.n >= b.assessmentDate.n

\* the orders in which the rows of ids can come back: rows that compare
\* equal come in an order the database chooses
orderBy(ids) ==
  { rows \in [1..Cardinality(ids) -> {Selected(id) : id \in ids}] :
      /\ \A i \in DOMAIN rows : \A j \in DOMAIN rows : i # j => rows[i] # rows[j]
      /\ \A i \in DOMAIN rows : \A j \in DOMAIN rows : i < j => desc(rows[i], rows[j]) }

getUserRiskAssessments(userId) == orderBy(whereUserId(userId))

\* .limit(1), destructured: the first row, or undefined
getLatestRiskAssessment(userId) ==
  IF whereUserId(userId) = {} THEN {undefined}
  ELSE {rows[1] : rows \in orderBy(whereUserId(userId))}

GetRiskAssessments(u) ==
  /\ isAuthenticated(u)
  /\ \E assessments \in getUserRiskAssessments(u) : RespondJson(Arr(assessments))
  /\ UNCHANGED <<users, sessions, tableVars, nextId, inflight, created>>
  /\ UNCHANGED <<engineVars, client>>

GetLatestRiskAssessment(u) ==
  /\ isAuthenticated(u)
  /\ \E assessment \in getLatestRiskAssessment(u) : RespondJson(assessment)
  /\ UNCHANGED <<users, sessions, tableVars, nextId, inflight, created>>
  /\ UNCHANGED <<engineVars, client>>

----------------------------------------------------------------------------
(* Appointments *)
ancAppointmentsColumns == {"userId", "doctorName", "status"}

\* appointmentInput, had the body been spread after userId
appointmentInputBodyLast(body, userId) == Spread([userId |-> Id(userId)], body)

\* the object given to insertAncAppointmentSchema.parse (lines 386-389)
appointmentInput(body, userId) == Spread(body, [userId |-> Id(userId)])

\* POST /api/appointments
CreateAppointment(u, body) ==
  /\ isAuthenticated(u)
  /\ LET parsed == parse(insertAncAppointmentSchema, appointmentInput(body, u))
         row == Spread(ancAppointmentsDefaults, parsed.data) IN
     IF ~parsed.ok
     THEN UNCHANGED <<ancAppointments, nextId, created>> /\ Respond(400)
     ELSE IF ~ReferencesUser(row.userId)
     THEN UNCHANGED <<ancAppointments, nextId, created>> /\ Respond(500)
     ELSE /\ HasRoom
          /\ ancAppointments' = Insert(ancAppointments, row)
          /\ nextId' = nextId + 1
          /\ created' = Remember(nextId + 1, Record(u, undefined, EmptyObject, undefined, Owner(row)))
          /\ Respond(201)
  /\ UNCHANGED <<users, sessions, riskAssessments, immunizations, communityPosts, communityComments, inflight>>
  /\ UNCHANGED <<engineVars, client>>

\* PATCH /api/appointments/:id, through updateAncAppointment
PatchAppointment(u, id, updates) ==
  /\ isAuthenticated(u)
  /\ IF id \notin DOMAIN ancAppointments
     THEN UNCHANGED ancAppointments /\ Respond(404)
     ELSE LET row == Set(ancAppointments[id], updates, ancAppointmentsColumns) IN
          IF ReferencesUser(row.userId) /\ row.status.t = "string"
          THEN ancAppointments' = [ancAppointments EXCEPT ![id] = row] /\ Respond(200)
          ELSE UNCHANGED ancAppointments /\ Respond(500)
  /\ UNCHANGED <<users, sessions, riskAssessments, immunizations, communityPosts, communityComments,
                 nextId, inflight, created>>
  /\ UNCHANGED <<engineVars, client>>

\* DeleteAppointment, had the handler not looked at the number of rows deleted
DeleteAppointmentAlways204(u, id) ==
  /\ isAuthenticated(u)
  /\ ancAppointments' = Delete(ancAppointments, id)
  /\ Respond(204)
  /\ UNCHANGED <<users, sessions, riskAssessments, immunizations, communityPosts, communityComments,
                 nextId, inflight, created>>
  /\ UNCHANGED <<engineVars, client>>

\* DELETE /api/appointments/:id, through deleteAncAppointment
DeleteAppointment(u, id) ==
  /\ isAuthenticated(u)
  /\ IF id \in DOMAIN ancAppointments
     THEN ancAppointments' = Delete(ancAppointments, id) /\ Respond(204)
     ELSE UNCHANGED ancAppointments /\ Respond(404)
  /\ UNCHANGED <<users, sessions, riskAssessments, immunizations, communityPosts, communityComments,
                 nextId, inflight, created>>
  /\ UNCHANGED <<engineVars, client>>

----------------------------------------------------------------------------
(* Immunizations *)
immunizationsColumns == {"userId", "childName", "status"}

\* the object given to insertImmunizationSchema.parse (lines 498-501)
immunizationInput(body, userId) == Spread(body, [userId |-> Id(userId)])

\* POST /api/immunizations
CreateImmunization(u, body) ==
  /\ isAuthenticated(u)
  /\ LET parsed == parse(insertImmunizationSchema, immunizationInput(body, u))
         row == Spread(immunizationsDefaults, parsed.data) IN
     IF ~parsed.ok
     THEN UNCHANGED <<immunizations, nextId, created>> /\ Respond(400)
     ELSE IF ~ReferencesUser(row.userId)
     THEN UNCHANGED <<immunizations, nextId, created>> /\ Respond(500)
     ELSE /\ HasRoom
          /\ immunizations' = Insert(immunizations, row)
          /\ nextId' = nextId + 1
          /\ created' = Remember(nextId + 1, Record(u, undefined, EmptyObject, undefined, Owner(row)))
          /\ Respond(201)
  /\ UNCHANGED <<users, sessions, ancAppointments, riskAssessments, communityPosts, communityComments, inflight>>
  /\ UNCHANGED <<engineVars, client>>

\* PATCH /api/immunizations/:id, through updateImmunization
PatchImmunization(u, id, updates) ==
  /\ isAuthenticated(u)
  /\ IF id \notin DOMAIN immunizations
     THEN UNCHANGED immunizations /\ Respond(404)
     ELSE LET row == Set(immunizations[id], updates, immunizationsColumns) IN
          IF ReferencesUser(row.userId) /\ row.status.t = "string"
          THEN immunizations' = [immunizations EXCEPT ![id] = row] /\ Respond(200)
          ELSE UNCHANGED immunizations /\ Respond(500)
  /\ UNCHANGED <<users, sessions, ancAppointments, riskAssessments, communityPosts, communityComments,
                 nextId, inflight, created>>
  /\ UNCHANGED <<engineVars, client>>

\* DELETE /api/immunizations/:id, through deleteImmunization
DeleteImmunization(u, id) ==
  /\ isAuthenticated(u)
  /\ IF id \in DOMAIN immunizations
     THEN immunizations' = Delete(immunizations, id) /\ Respond(204)
     ELSE UNCHANGED immunizations /\ Respond(404)
  /\ UNCHANGED <<users, sessions, ancAppointments, riskAssessments, communityPosts, communityComments,
                 nextId, inflight, created>>
  /\ UNCHANGED <<engineVars, client>>

----------------------------------------------------------------------------
(* Community *)
MaxLikes == 2

\* the object given to insertCommunityPostSchema.parse (lines 560-563)
postInput(body, userId) == Spread(body, [userId |-> Id(userId)])

\* POST /api/community/posts
CreatePost(u, body) ==
  /\ isAuthenticated(u)
  /\ LET parsed == parse(insertCommunityPostSchema, postInput(body, u))
         row == Spread(communityPostsDefaults, parsed.data) IN
     IF ~parsed.ok
     THEN UNCHANGED <<communityPosts, nextId, created>> /\ Respond(400)
     ELSE IF ~ReferencesUser(row.userId)
     THEN UNCHANGED <<communityPosts, nextId, created>> /\ Respond(500)
     ELSE /\ HasRoom
          /\ communityPosts' = Insert(communityPosts, row)
          /\ nextId' = nextId + 1
          /\ created' = Remember(nextId + 1, Record(u, undefined, EmptyObject, undefined, Owner(row)))
          /\ Respond(201)
  /\ UNCHANGED <<users, sessions, ancAppointments, riskAssessments, immunizations, communityComments, inflight>>
  /\ UNCHANGED <<engineVars, client>>

\* desc(createdAt) over rows stamped by defaultNow(): the later id first
newestFirst(ids) ==
  CHOOSE order \in [1..Cardinality(ids) -> ids] :
    \A i \in DOMAIN order : \A j \in DOMAIN order : i < j => order[i] > order[j]

\* the columns of users joined to a post or a comment
joinedUser(userId) ==
  LET u == CHOOSE t \in UserIds : Id(t) = userId IN
  [id |-> userId, pregnancyWeeks |-> users[u].pregnancyWeeks]

\* getCommunityPosts: every post with its author and its number of comments
getCommunityPosts ==
  LET post(id) ==
        [id |-> RecordId(id), userId |-> communityPosts[id].userId,
         content |-> communityPosts[id].content, likes |-> communityPosts[id].likes,
         user |-> joinedUser(communityPosts[id].userId),
         commentCount |-> Num(Cardinality({c \in DOMAIN communityComments :
                                            communityComments[c].postId = RecordId(id)}))]
      order == newestFirst(DOMAIN communityPosts)
  IN [i \in DOMAIN order |-> post(order[i])]

\* getPostComments: the comments of the post, each with its author
getPostComments(postId) ==
  LET comment(id) ==
        [id |-> RecordId(id), postId |-> postId, userId |-> communityComments[id].userId,
         content |-> communityComments[id].content,
         user |-> joinedUser(communityComments[id].userId)]
      order == newestFirst({c \in DOMAIN communityComments : communityComments[c].postId = postId})
  IN [i \in DOMAIN order |-> comment(order[i])]

\* whoever sends a request: a user, signed in or not, or nobody in particular
Requesters == UserIds \cup {"anonymous"}

\* GET /api/community/posts: registered without isAuthenticated
GetCommunityPosts(who) ==
  /\ who \in Requesters
  /\ RespondJson(Arr(getCommunityPosts))
  /\ UNCHANGED <<users, sessions, tableVars, nextId, inflight, created>>
  /\ UNCHANGED <<engineVars, client>>

\* GET /api/community/posts/:id/comments: registered without isAuthenticated
GetPostComments(who, postId) ==
  /\ who \in Requesters
  /\ RespondJson(Arr(getPostComments(postId)))
  /\ UNCHANGED <<users, sessions, tableVars, nextId, inflight, created>>
  /\ UNCHANGED <<engineVars, client>>

\* LikePost, had the update been issued without its where clause
LikePostAll(u, id) ==
  /\ isAuthenticated(u)
  /\ IF id \in DOMAIN communityPosts
     THEN /\ \A k \in DOMAIN communityPosts : communityPosts[k].likes.n < MaxLikes
          /\ communityPosts' = [k \in DOMAIN communityPosts |->
                                  [communityPosts[k] EXCEPT !.likes = Num(@.n + 1)]]
          /\ Respond(200)
     ELSE UNCHANGED communityPosts /\ Respond(404)
  /\ UNCHANGED <<users, sessions, ancAppointments, riskAssessments, immunizations, communityComments,
                 nextId, inflight, created>>
  /\ UNCHANGED <<engineVars, client>>

\* POST /api/community/posts/:id/like, through likeCommunityPost
LikePost(u, id) ==
  /\ isAuthenticated(u)
  /\ IF id \in DOMAIN communityPosts
     THEN /\ communityPosts[id].likes.n < MaxLikes
          /\ communityPosts' = [communityPosts EXCEPT ![id] = [@ EXCEPT !.likes = Num(@.n + 1)]]
          /\ Respond(200)
     ELSE UNCHANGED communityPosts /\ Respond(404)
  /\ UNCHANGED <<users, sessions, ancAppointments, riskAssessments, immunizations, communityComments,
                 nextId, inflight, created>>
  /\ UNCHANGED <<engineVars, client>>

\* the object given to insertCommunityCommentSchema.parse (lines 604-608)
commentInput(body, postId, userId) == Spread(body, [postId |-> postId, userId |-> Id(userId)])

\* POST /api/community/posts/:id/comments
CreateComment(u, postId, body) ==
  /\ isAuthenticated(u)
  /\ LET parsed == parse(insertCommunityCommentSchema, commentInput(body, postId, u))
         row == parsed.data IN
     IF ~parsed.ok
     THEN UNCHANGED <<communityComments, nextId, created>> /\ Respond(400)
     ELSE IF ~(ReferencesUser(row.userId) /\ ReferencesPost(row.postId))
     THEN UNCHANGED <<communityComments, nextId, created>> /\ Respond(500)
     ELSE /\ HasRoom
          /\ communityComments' = Insert(communityComments, row)
          /\ nextId' = nextId + 1
          /\ created' = Remember(nextId + 1, Record(u, postId, EmptyObject, undefined, Owner(row)))
          /\ Respond(201)
  /\ UNCHANGED <<users, sessions, ancAppointments, riskAssessments, immunizations, communityPosts, inflight>>
  /\ UNCHANGED <<engineVars, client>>

----------------------------------------------------------------------------
(* Request bodies and path parameters *)
Spoofed == {Id(u) : u \in UserIds}

\* well-formed, naming another owner and an unlisted status, and rejected
AppointmentBodies ==
  { [doctorName |-> Id("Dr A")], [status |-> Id("completed")], [doctorName |-> Num(7)] }
  \cup { [doctorName |-> Id("Dr A"), userId |-> o, status |-> Id("unknown")] : o \in Spoofed }

AppointmentUpdates ==
  { [status |-> Id("cancelled")], [status |-> Id("unknown")], [userId |-> Id("nobody")] }
  \cup { [userId |-> o] : o \in Spoofed }

ImmunizationBodies ==
  { [childName |-> Id("Ada")], [status |-> Id("completed")] }
  \cup { [childName |-> Id("Ada"), userId |-> o, status |-> Id("unknown")] : o \in Spoofed }

ImmunizationUpdates ==
  { [status |-> Id("overdue")], [status |-> Id("unknown")], [userId |-> Id("nobody")] }
  \cup { [userId |-> o] : o \in Spoofed }

PostBodies ==
  { [content |-> Id("hello")], [likes |-> Num(5)] }
  \cup { [content |-> Id("hello"), userId |-> o, likes |-> Num(5)] : o \in Spoofed }

PathIds == 1..MaxRecords

CommentBodies ==
  { [content |-> Id("nice")], [postId |-> RecordId(2)] }
  \cup { [content |-> Id("nice"), userId |-> o, postId |-> RecordId(2)] : o \in Spoofed }

\* profile edits: the weeks set, cleared, or left alone
ProfileUpdates ==
  { [firstName |-> Id("Ann")], [pregnancyWeeks |-> Num(MaxWeeks)], [pregnancyWeeks |-> null] }

\* bodies of POST /api/risk-assessments: well-formed; well-formed and carrying
\* the derived fields, another owner and its own pregnancyWeeks; malformed in
\* a field the engine calls a method on; malformed in a field it only compares
RiskBodies ==
  { [weight |-> Num(MaxWeight)],
    [weight |-> Num(MaxWeight), bloodPressure |-> Str(<<"H","i","g","h">>),
     riskLevel |-> Id("high"), riskFactors |-> Arr(<<"none">>),
     recommendations |-> Id("none"), pregnancyWeeks |-> Num(0), userId |-> Id("u2")],
    [bloodPressure |-> Num(140)],
    [weight |-> Str(<<"9","9">>)] }

----------------------------------------------------------------------------
(* The server: every route, one request at a time inside the risk handler *)
Init ==
  /\ data = EmptyObject
  /\ riskLevel = "none"
  /\ riskFactors = <<>>
  /\ recommendations = ""
  /\ pc = "idle"
  /\ returned = <<>>
  /\ ApiInit
  /\ ClientInit

Next ==
  \/ \E u \in UserIds : Login(u)
  \/ \E u \in UserIds : PatchUser(u, [firstName |-> Id("Ann")])
  \/ \E u \in UserIds : RiskGetUser(u, [weight |-> Num(MaxWeight), userId |-> Id("u2"), riskLevel |-> Id("high")], 1)
  \/ \E slot \in 1..1 : RiskAssess(slot)
  \/ \E slot \in 1..1 : RiskParse(slot)
  \/ \E slot \in 1..1 : RiskInsert(slot)
  \/ \E u \in UserIds, body \in AppointmentBodies : CreateAppointment(u, body)
  \/ \E u \in UserIds, id \in PathIds, updates \in AppointmentUpdates : PatchAppointment(u, id, updates)
  \/ \E u \in UserIds, id \in PathIds : DeleteAppointment(u, id)
  \/ \E u \in UserIds, body \in ImmunizationBodies : CreateImmunization(u, body)
  \/ \E u \in UserIds, id \in PathIds, updates \in ImmunizationUpdates : PatchImmunization(u, id, updates)
  \/ \E u \in UserIds, id \in PathIds : DeleteImmunization(u, id)
  \/ \E u \in UserIds, body \in PostBodies : CreatePost(u, body)
  \/ \E u \in UserIds, id \in PathIds : LikePost(u, id)
  \/ \E u \in UserIds, id \in PathIds, body \in CommentBodies : CreateComment(u, RecordId(id), body)

Spec == Init /\ [][Next]_vars

(* The create routes alone *)
CreateNext ==
  \/ \E u \in UserIds : Login(u)
  \/ \E u \in UserIds, body \in RiskBodies : RiskGetUser(u, body, 1)
  \/ \E slot \in 1..1 : RiskAssess(slot)
  \/ \E slot \in 1..1 : RiskParse(slot)
  \/ \E slot \in 1..1 : RiskInsert(slot)
  \/ \E u \in UserIds, body \in AppointmentBodies : CreateAppointment(u, body)
  \/ \E u \in UserIds, body \in ImmunizationBodies : CreateImmunization(u, body)
  \/ \E u \in UserIds, body \in PostBodies : CreatePost(u, body)
  \/ \E u \in UserIds, id \in PathIds, body \in CommentBodies : CreateComment(u, RecordId(id), body)

CreateSpec == Init /\ [][CreateNext]_vars

(* The risk-assessment route and the profile it reads, requests overlapping *)
RiskNext ==
  \/ \E u \in UserIds : Login(u)
  \/ \E u \in UserIds, updates \in ProfileUpdates : PatchUser(u, updates)
  \/ \E u \in UserIds, body \in RiskBodies : RiskGetUser(u, body, MaxInflight)
  \/ \E slot \in 1..MaxInflight : RiskAssess(slot)
  \/ \E slot \in 1..MaxInflight : RiskParse(slot)
  \/ \E slot \in 1..MaxInflight : RiskInsert(slot)

RiskSpec == Init /\ [][RiskNext]_vars

\* bodies that leave assessmentDate to its default, clear it, or give it as text
HistoryBodies ==
  { [weight |-> Num(MaxWeight)], [assessmentDate |-> null], [assessmentDate |-> Id("2020-01-01")] }

(* The risk-assessment history: its routes, and the routes that update or  *)
(* delete records of other tables by id                                    *)
HistoryNext ==
  \/ \E u \in UserIds : Login(u)
  \/ \E u \in UserIds, body \in HistoryBodies : RiskGetUser(u, body, 1)
  \/ \E slot \in 1..1 : RiskAssess(slot)
  \/ \E slot \in 1..1 : RiskParse(slot)
  \/ \E slot \in 1..1 : RiskInsert(slot)
  \/ \E u \in UserIds : GetRiskAssessments(u)
  \/ \E u \in UserIds : GetLatestRiskAssessment(u)
  \/ \E u \in UserIds : CreateAppointment(u, [doctorName |-> Id("Dr A")])
  \/ \E u \in UserIds : CreateImmunization(u, [childName |-> Id("Ada")])
  \/ \E u \in UserIds, id \in PathIds : PatchAppointment(u, id, [userId |-> Id("u2"), riskLevel |-> Id("low")])
  \/ \E u \in UserIds, id \in PathIds : DeleteAppointment(u, id)
  \/ \E u \in UserIds, id \in PathIds : PatchImmunization(u, id, [userId |-> Id("u2"), riskLevel |-> Id("low")])
  \/ \E u \in UserIds, id \in PathIds : DeleteImmunization(u, id)

HistorySpec == Init /\ [][HistoryNext]_vars

\* profile edits, and edits that name a user in an id of their own
ProfileBodies ==
  ProfileUpdates \cup {[id |-> o, pregnancyWeeks |-> Num(w)] : o \in Spoofed, w \in 0..MaxWeeks}

(* Sign-in and PATCH /api/auth/user *)
ProfileNext ==
  \/ \E u \in UserIds : Login(u)
  \/ \E u \in UserIds, updates \in ProfileBodies : PatchUser(u, updates)

ProfileSpec == Init /\ [][ProfileNext]_vars

(* The routes that address one record by the id of the path *)
ByIdNext ==
  \/ \E u \in UserIds : Login(u)
  \/ \E u \in UserIds : CreateAppointment(u, [doctorName |-> Id("Dr A")])
  \/ \E u \in UserIds : CreateImmunization(u, [childName |-> Id("Ada")])
  \/ \E u \in UserIds : CreatePost(u, [content |-> Id("hello")])
  \/ \E u \in UserIds, id \in PathIds : PatchAppointment(u, id, [status |-> Id("cancelled")])
  \/ \E u \in UserIds, id \in PathIds : DeleteAppointment(u, id)
  \/ \E u \in UserIds, id \in PathIds : PatchImmunization(u, id, [status |-> Id("overdue")])
  \/ \E u \in UserIds, id \in PathIds : DeleteImmunization(u, id)
  \/ \E u \in UserIds, id \in PathIds : LikePost(u, id)

ByIdSpec == Init /\ [][ByIdNext]_vars

(* The risk-assessment page and the answers it gets *)
ClientNext ==
  \/ ShowForm
  \/ CancelForm
  \/ handleSubmit
  \/ onSuccess
  \/ \E status \in Statuses : onError(status)
  \/ \E key \in QueryKeys : Refetch(key)
  \/ Redirect

ClientSpec == Init /\ [][ClientNext]_vars

(* The community routes *)
CommunityNext ==
  \/ \E u \in UserIds : Login(u)
  \/ \E u \in UserIds, body \in PostBodies : CreatePost(u, body)
  \/ \E u \in UserIds, id \in PathIds : LikePost(u, id)
  \/ \E u \in UserIds, id \in PathIds, body \in CommentBodies : CreateComment(u, RecordId(id), body)
  \/ \E who \in Requesters : GetCommunityPosts(who)
  \/ \E who \in Requesters, id \in PathIds : GetPostComments(who, RecordId(id))

CommunitySpec == Init /\ [][CommunityNext]_vars

(* POST /api/risk-assessments, several requests in flight at once *)
ConcurrentNext ==
  \/ \E u \in UserIds : Login(u)
  \/ \E u \in UserIds, body \in RiskBodies : RiskGetUser(u, body, MaxConcurrent)
  \/ \E slot \in 1..MaxConcurrent : RiskAssess(slot)
  \/ \E slot \in 1..MaxConcurrent : RiskParse(slot)
  \/ \E slot \in 1..MaxConcurrent : RiskInsert(slot)

ConcurrentSpec == Init /\ [][ConcurrentNext]_vars

(* assessRisk called repeatedly *)
CallSpec == Init /\ [][CallNext]_vars

----------------------------------------------------------------------------
(* Properties of assessRisk, checked under EngineSpec *)

Range(f) == {f[i] : i \in DOMAIN f}
Has(d, key) == key \in DOMAIN d
Rank(level) == CASE level = "high" -> 2 [] level = "medium" -> 1 [] OTHER -> 0
AfterRule3 == pc \in {"rule4", "rule5", "rule6", "done"}

\* C2: whenever weight and pregnancyWeeks are both supplied (whatever their
\* values), "Excessive weight gain" is appended exactly when
\* weight > 1.5 * (0.5 * pregnancyWeeks), the level then being high if it was
\* high and medium otherwise; otherwise rule 3 adds nothing.
C2_WeightRuleOnSuppliedFields ==
  (pc = "rule4" /\ Has(data, "weight") /\ Has(data, "pregnancyWeeks")
     /\ data.pregnancyWeeks.t = "number")
  => IF 4 * data.weight.n > 3 * data.pregnancyWeeks.n
     THEN /\ riskFactors # <<>>
          /\ riskFactors[Len(riskFactors)] = ExcessiveWeightGain
          /\ riskLevel = (IF bloodPressureTriggers(data) THEN "high" ELSE "medium")
     ELSE ExcessiveWeightGain \notin Range(riskFactors)

\* the severity the claim assigns to the rules an input triggers
MaxSeverity(d) ==
  IF bloodPressureTriggers(d) \/ babyMovementTriggers(d) \/ symptomsTriggers(d) THEN 2
  ELSE IF weightTriggers(d) THEN 1
  ELSE 0

\* C7: from one rule step to the next the running riskLevel never decreases
\* in the order low < medium < high, and the final riskLevel is the maximum
\* severity over the triggered rules.
C7_Monotone ==
  /\ [][(pc \in {"rule2", "rule3", "rule4", "rule5"}) => (Rank(riskLevel') >= Rank(riskLevel))]_vars
  /\ [](pc = "done" => Rank(riskLevel) = MaxSeverity(data))

C7_Witness ==
  /\ pc = "rule4"
  /\ bloodPressureTriggers(data) /\ weightTriggers(data)
  /\ ~babyMovementTriggers(data) /\ ~symptomsTriggers(data)
  /\ riskLevel = "high"

\* C8: when the blood-pressure rule and the weight rule both trigger, the
\* final riskLevel is high and riskFactors begins with "High blood pressure",
\* "Excessive weight gain" in that order.
C8_BothTrigger ==
  (pc = "done" /\ bloodPressureTriggers(data) /\ weightTriggers(data))
  => /\ riskLevel = "high"
     /\ Len(riskFactors) >= 2
     /\ SubSeq(riskFactors, 1, 2) = <<HighBloodPressure, ExcessiveWeightGain>>

C8_Witness ==
  /\ pc = "done"
  /\ bloodPressureTriggers(data) /\ weightTriggers(data)
  /\ ~babyMovementTriggers(data) /\ ~symptomsTriggers(data)
  /\ riskLevel = "high"
  /\ riskFactors = <<HighBloodPressure, ExcessiveWeightGain>>

RuleOrder == <<HighBloodPressure, ExcessiveWeightGain, ReducedFetalMovement, BleedingSymptoms>>

TriggeredFactors(d) ==
  LET Triggered(factor) ==
        CASE factor = HighBloodPressure -> bloodPressureTriggers(d)
          [] factor = ExcessiveWeightGain -> weightTriggers(d)
          [] factor = ReducedFetalMovement -> babyMovementTriggers(d)
          [] factor = BleedingSymptoms -> symptomsTriggers(d)
  IN SelectSeq(RuleOrder, Triggered)

\* C9: the returned riskFactors is exactly the subsequence of the four factor
\* names, in rule order, of the rules that triggered: one entry per triggered
\* rule, none for an untriggered rule, no duplicates, empty when none triggers.
C9_FactorsAreTriggeredRules ==
  pc = "done" => riskFactors = TriggeredFactors(data)

C9_Witness ==
  /\ pc = "done"
  /\ riskFactors = <<HighBloodPressure, ReducedFetalMovement, BleedingSymptoms>>
  /\ Has(data, "weight") /\ Has(data, "pregnancyWeeks")

\* C10: rule 2 appends "High blood pressure" and sets riskLevel to high
\* exactly when bloodPressure is present and its text, as supplied, contains
\* "high" or "140"; a text matching only in another letter case does not.
C10_BloodPressureRule ==
  pc = "rule3" =>
    IF Has(data, "bloodPressure")
       /\ (includes(data.bloodPressure.s, high) \/ includes(data.bloodPressure.s, t140))
    THEN riskFactors = <<HighBloodPressure>> /\ riskLevel = "high"
    ELSE riskFactors = <<>> /\ riskLevel = "low"

C10_Witness ==
  /\ pc = "rule3"
  /\ Get(data, "bloodPressure") = Str(<<"1","4","0","/","9","0"," ","h","i","g","h">>)
  /\ riskFactors = <<HighBloodPressure>>
  /\ riskLevel = "high"

\* C11: whenever babyMovement equals "reduced", the returned riskFactors
\* includes "Reduced fetal movement" and the returned riskLevel is high,
\* whatever the other fields are.
C11_ReducedMovementIsHigh ==
  (pc = "done" /\ Has(data, "babyMovement") /\ data.babyMovement = Str(<<"reduced">>))
  => /\ ReducedFetalMovement \in Range(riskFactors)
     /\ riskLevel = "high"

C11_Witness ==
  /\ pc = "done"
  /\ DOMAIN data = {"babyMovement"}
  /\ data.babyMovement = Str(<<"reduced">>)
  /\ riskFactors = <<ReducedFetalMovement>>
  /\ riskLevel = "high"

\* the symptoms text is supplied and, lower-cased, contains "bleeding"
BleedingMentioned(d) ==
  Has(d, "symptoms") /\ includes(toLowerCase(d.symptoms.s), bleeding)

\* C12: the step of rule 5 appends "Bleeding symptoms" and sets riskLevel to
\* high when symptoms is present and its lower-cased text contains "bleeding",
\* and otherwise changes neither riskFactors nor riskLevel; in the first case
\* the returned riskFactors includes the factor and the returned level is high.
C12_SymptomsRule ==
  /\ [][(pc = "rule5") =>
          (IF BleedingMentioned(data)
           THEN riskFactors' = Append(riskFactors, BleedingSymptoms) /\ riskLevel' = "high"
           ELSE riskFactors' = riskFactors /\ riskLevel' = riskLevel)]_vars
  /\ []((pc = "done" /\ BleedingMentioned(data))
          => (BleedingSymptoms \in Range(riskFactors) /\ riskLevel = "high"))

C12_Witness ==
  /\ pc = "done"
  /\ Get(data, "symptoms") =
       Str(<<"H","e","a","v","y"," ","B","l","e","e","d","i","n","g"," ","t","o","d","a","y">>)
  /\ riskFactors = <<BleedingSymptoms>>
  /\ riskLevel = "high"

\* C13: with bloodPressure, weight, babyMovement, symptoms and pregnancyWeeks
\* all absent, the result is riskLevel low, no risk factors and the
\* recommendation for low.
C13_AllAbsentIsLow ==
  (pc = "done"
     /\ \A k \in {"bloodPressure", "weight", "babyMovement", "symptoms", "pregnancyWeeks"} :
          Get(data, k) = undefined)
  => /\ riskLevel = "low"
     /\ riskFactors = <<>>
     /\ recommendations = "Continue with regular prenatal care and maintain healthy habits."

C13_Witness ==
  /\ pc = "done"
  /\ data = EmptyObject
  /\ riskLevel = "low"
  /\ recommendations = RecommendLow

\* C14: the returned recommendations text is decided by the returned
\* riskLevel alone: the urgent text for high, the follow-up text for medium,
\* the regular-care text for low, and never any other text.
C14_RecommendationsByLevel ==
  pc = "done" =>
    \/ riskLevel = "high" /\ recommendations =
         "Please contact your healthcare provider immediately and schedule an urgent appointment."
    \/ riskLevel = "medium" /\ recommendations =
         "Monitor symptoms closely and schedule a follow-up appointment within the week."
    \/ riskLevel = "low" /\ recommendations =
         "Continue with regular prenatal care and maintain healthy habits."

C14_Witness ==
  /\ pc = "done"
  /\ riskLevel = "medium"
  /\ recommendations = RecommendMedium
  /\ riskFactors = <<ExcessiveWeightGain>>

\* C15: on every input of the declared type no statement raises an error,
\* every statement before the return can be executed, and the returned
\* riskLevel is low, medium or high.
C15_Total ==
  /\ pc # "threw"
  /\ pc # "done" => ENABLED EngineNext
  /\ pc = "done" => riskLevel \in {"low", "medium", "high"}

C15_Witness ==
  /\ pc = "done"
  /\ DOMAIN data = {"bloodPressure", "weight", "babyMovement", "symptoms", "pregnancyWeeks"}
  /\ data.babyMovement = Str(<<"none">>)
  /\ data.symptoms = Str(<<>>)
  /\ riskLevel \in {"low", "medium", "high"}

\* C16: any two calls made with the same input returned the same riskLevel,
\* riskFactors and recommendations, whatever calls were made between them.
C16_Deterministic ==
  \A i \in DOMAIN returned : \A j \in DOMAIN returned :
    returned[i].data = returned[j].data => returned[i] = returned[j]

C16_Witness ==
  /\ Len(returned) = 3
  /\ returned[1].data = returned[3].data
  /\ returned[2].data # returned[1].data
  /\ returned[1].riskFactors = <<ExcessiveWeightGain>>
  /\ returned[2].riskFactors = <<ReducedFetalMovement, BleedingSymptoms>>

\* C26: the returned riskLevel is low exactly when riskFactors is empty,
\* medium exactly when riskFactors is the one factor "Excessive weight gain",
\* and high exactly when riskFactors contains "High blood pressure",
\* "Reduced fetal movement" or "Bleeding symptoms".
C26_LevelFromFactors ==
  pc = "done" =>
    /\ riskLevel = "low" <=> riskFactors = <<>>
    /\ riskLevel = "medium" <=> riskFactors = <<ExcessiveWeightGain>>
    /\ riskLevel = "high" <=>
         Range(riskFactors) \cap {HighBloodPressure, ReducedFetalMovement, BleedingSymptoms} # {}

C26_Witness ==
  /\ pc = "done"
  /\ riskLevel = "high"
  /\ riskFactors = <<ExcessiveWeightGain, BleedingSymptoms>>

\* d without the key
Without(d, key) == [k \in DOMAIN d \ {key} |-> d[k]]

\* C30: an input whose babyMovement is supplied and is not "reduced" gets the
\* riskLevel, riskFactors and recommendations of the same input without
\* babyMovement; with "none" and no other field it gets low and no factor.
C30_OtherMovementsAreIgnored ==
  /\ (pc = "done" /\ Has(data, "babyMovement") /\ data.babyMovement # Str(<<"reduced">>))
     => LET absent == assessRisk(Without(data, "babyMovement")) IN
        /\ riskLevel = absent.riskLevel
        /\ riskFactors = absent.riskFactors
        /\ recommendations = absent.recommendations
        /\ ReducedFetalMovement \notin Range(riskFactors)
  /\ (pc = "done" /\ data = [babyMovement |-> Str(<<"none">>)])
     => (riskLevel = "low" /\ riskFactors = <<>>)

C30_Witness ==
  /\ pc = "done"
  /\ Get(data, "babyMovement") = Str(<<"none">>)
  /\ riskLevel = "medium"
  /\ riskFactors = <<ExcessiveWeightGain>>
  /\ Has(data, "bloodPressure") /\ Has(data, "symptoms")

----------------------------------------------------------------------------
(* Properties of the routes *)

Observation(body) ==
  [k \in DOMAIN body \cap {"bloodPressure", "weight", "babyMovement", "symptoms"} |-> body[k]]

\* C1: every stored risk assessment carries as riskLevel, riskFactors and
\* recommendations the output of assessRisk on the observation fields of the
\* request that created it plus the pregnancyWeeks the handler read from the
\* requester's user row, whatever else the body carried.
C1_StoredAnalysisIsEngineOutput ==
  \A id \in DOMAIN riskAssessments :
    LET stored == riskAssessments[id]
        out == assessRisk(Spread(Observation(created[id].body),
                                 [pregnancyWeeks |-> created[id].pregnancyWeeks])) IN
    /\ ~out.threw
    /\ stored.riskLevel = Id(out.riskLevel)
    /\ stored.riskFactors = Arr(out.riskFactors)
    /\ stored.recommendations = Id(out.recommendations)

C1_Witness ==
  \E id \in DOMAIN riskAssessments :
    /\ "riskLevel" \in DOMAIN created[id].body
    /\ "riskFactors" \in DOMAIN created[id].body
    /\ riskAssessments[id].riskLevel # created[id].body.riskLevel
    /\ riskAssessments[id].riskFactors = Arr(<<ExcessiveWeightGain>>)
    /\ created[id].pregnancyWeeks = Num(MaxWeeks)

\* what request validation decides about a body, the handler's own fields being well-typed
BodyValidates(body) ==
  parse(insertRiskAssessmentSchema,
        Spread(body, [userId |-> Id("u1"), riskLevel |-> Id("low"),
                      riskFactors |-> Arr(<<>>), recommendations |-> Id(RecommendLow)])).ok

\* C3: the engine is invoked only on request bodies that request validation
\* accepts: every step that runs assessRisk for a request runs it on a body
\* that validates.
C3_ValidationPrecedesScoring ==
  [][\A slot \in DOMAIN inflight : RiskAssess(slot) => BodyValidates(inflight[slot].body)]_vars

Tables == <<ancAppointments, riskAssessments, immunizations, communityPosts, communityComments>>

\* C4: every stored owned record has the userId it was inserted with.
C4_OwnershipImmutable ==
  \A t \in DOMAIN Tables : \A id \in DOMAIN Tables[t] :
    Tables[t][id].userId = created[id].row.userId

\* C5: every record a create route has inserted has the userId of the
\* identity that made the request, and a comment has the postId of the path.
C5_CreatedForRequester ==
  /\ \A t \in DOMAIN Tables : \A id \in DOMAIN Tables[t] :
       Tables[t][id].userId = Id(created[id].by)
  /\ \A id \in DOMAIN communityComments :
       communityComments[id].postId = created[id].param

C5_Witness ==
  /\ \E id \in DOMAIN communityComments : \E post \in DOMAIN communityPosts :
       /\ communityComments[id].postId = RecordId(post)
       /\ communityComments[id].postId # RecordId(2)
       /\ communityPosts[post].userId # communityComments[id].userId

\* C6: every appointment's status is scheduled, completed or cancelled and
\* every immunization's status is pending, completed or overdue.
C6_StatusInEnum ==
  /\ \A id \in DOMAIN ancAppointments :
       ancAppointments[id].status \in {Id("scheduled"), Id("completed"), Id("cancelled")}
  /\ \A id \in DOMAIN immunizations :
       immunizations[id].status \in {Id("pending"), Id("completed"), Id("overdue")}

\* a step of the handler of POST /api/risk-assessments other than the insert:
\* the engine's, the validation's, or the arrival of the request
BeforeInsert(slot) ==
  \/ RiskAssess(slot)
  \/ RiskParse(slot)
  \/ slot \notin DOMAIN inflight /\ slot \in DOMAIN inflight'

\* riskAssessments after the step is riskAssessments with at most one record added
AtMostOneAdded ==
  /\ \A id \in DOMAIN riskAssessments :
       id \in DOMAIN riskAssessments' /\ riskAssessments'[id] = riskAssessments[id]
  /\ Cardinality(DOMAIN riskAssessments') <= Cardinality(DOMAIN riskAssessments) + 1

\* C17: of the steps of the handler, which are the steps that change the
\* requests in flight, the step that runs assessRisk changes no stored
\* entity and leaves the request body as it was; no step of the handler
\* before the insert writes to a table; and the insert step adds at most one
\* risk assessment, exactly one when it answers 201, and writes nothing else.
C17_EngineHasNoSideEffects ==
  [][inflight' # inflight => \A slot \in 1..MaxInflight :
       /\ RiskAssess(slot) =>
            /\ UNCHANGED <<users, tableVars, nextId>>
            /\ slot \in DOMAIN inflight' => inflight'[slot].body = inflight[slot].body
       /\ BeforeInsert(slot) => UNCHANGED <<users, tableVars, nextId>>
       /\ RiskInsert(slot) =>
            /\ UNCHANGED <<users, ancAppointments, immunizations, communityPosts, communityComments>>
            /\ AtMostOneAdded
            /\ res' = 201 <=> Cardinality(DOMAIN riskAssessments') = Cardinality(DOMAIN riskAssessments) + 1]_vars

C17_Witness ==
  /\ res = 201
  /\ Cardinality(DOMAIN riskAssessments) = 2
  /\ \A id \in DOMAIN riskAssessments : riskAssessments[id] = created[id].row
  /\ \E id \in DOMAIN riskAssessments : riskAssessments[id].riskFactors = Arr(<<ExcessiveWeightGain>>)

\* C18: the object handed to assessRisk has as pregnancyWeeks the value the
\* handler read from the requester's user row when the request arrived, also
\* when the body carries a pregnancyWeeks of its own, and the analysis kept
\* for the request is the engine's output for that value.
C18_WeeksFromUserRecord ==
  /\ [][\A slot \in 1..MaxInflight :
          /\ (slot \notin DOMAIN inflight /\ slot \in DOMAIN inflight') =>
               inflight'[slot].pregnancyWeeks = users[inflight'[slot].userId].pregnancyWeeks
          /\ RiskAssess(slot) =>
               engineInput(inflight[slot].body, inflight[slot].pregnancyWeeks).pregnancyWeeks
                 = inflight[slot].pregnancyWeeks]_vars
  /\ [](\A slot \in DOMAIN inflight :
          inflight[slot].pc \in {"parse", "insert"} =>
            inflight[slot].riskAnalysis =
              assessRisk(Spread(Observation(inflight[slot].body),
                                [pregnancyWeeks |-> inflight[slot].pregnancyWeeks])))

C18_Witness ==
  \E slot \in DOMAIN inflight :
    /\ inflight[slot].pc = "parse"
    /\ Get(inflight[slot].body, "pregnancyWeeks") = Num(0)
    /\ inflight[slot].pregnancyWeeks = Num(MaxWeeks)
    /\ users[inflight[slot].userId].pregnancyWeeks = null
    /\ inflight[slot].riskAnalysis.riskFactors = <<ExcessiveWeightGain>>

\* the record created under id was a risk assessment
IsRiskAssessment(id) == "riskLevel" \in DOMAIN created[id].row

\* C19: every risk assessment ever created is still stored, with the field
\* values it was created with; no step removes or changes one; and a POST
\* /api/risk-assessments answered with 201 added exactly one.
C19_AppendOnly ==
  /\ [](\A id \in DOMAIN created :
          IsRiskAssessment(id) => (id \in DOMAIN riskAssessments /\ riskAssessments[id] = created[id].row))
  /\ [][AtMostOneAdded]_vars
  /\ [][\A slot \in 1..1 :
          (RiskInsert(slot) /\ res' = 201) =>
            Cardinality(DOMAIN riskAssessments') = Cardinality(DOMAIN riskAssessments) + 1]_vars

C19_Witness ==
  /\ Cardinality(DOMAIN riskAssessments) = 2
  /\ \A id \in DOMAIN riskAssessments : riskAssessments[id].userId = Id("u1")
  /\ res = 404
  /\ sessions = UserIds

\* the user's assessments that carry an assessmentDate
Dated(u) == {id \in whereUserId(u) : riskAssessments[id].assessmentDate.t = "date"}

\* the user's assessment with the greatest assessmentDate
Newest(u) ==
  CHOOSE id \in Dated(u) :
    \A other \in Dated(u) : riskAssessments[id].assessmentDate.n >= riskAssessments[other].assessmentDate.n

\* C20: GET /api/risk-assessments answers with exactly the requester's
\* assessments, each once, no assessment placed before one with a greater
\* assessmentDate; GET /api/risk-assessments/latest answers with nothing when
\* the requester has none and otherwise with the requester's assessment of
\* the greatest assessmentDate, which right after a POST answered with 201
\* and stamped later than every earlier one is the one just created.
C20_LatestIsNewest ==
  /\ [][\A u \in UserIds :
          /\ GetRiskAssessments(u) =>
               /\ json'.t = "array"
               /\ Len(json'.s) = Cardinality(whereUserId(u))
               /\ {row.id : row \in Range(json'.s)} = {RecordId(id) : id \in whereUserId(u)}
               /\ \A i \in DOMAIN json'.s : \A j \in DOMAIN json'.s :
                    (i < j /\ json'.s[i].assessmentDate.t = "date" /\ json'.s[j].assessmentDate.t = "date")
                    => json'.s[i].assessmentDate.n >= json'.s[j].assessmentDate.n
          /\ GetLatestRiskAssessment(u) =>
               /\ whereUserId(u) = {} => json' = undefined
               /\ Dated(u) # {} => json' = Selected(Newest(u))]_vars
  /\ []((res = 201 /\ nextId \in DOMAIN riskAssessments
            /\ riskAssessments[nextId].assessmentDate.t = "date")
          => \A u \in UserIds :
               nextId \in whereUserId(u) => getLatestRiskAssessment(u) = {Selected(nextId)})

\* C21: with requests overlapping in any order of their steps, a request
\* that is answered with 201 has added one record, under a new id, with its
\* own requester and its own observations and analysis, and has left every
\* other record as it was; a request answered otherwise, and every step that
\* answers no request, leaves the stored assessments as they were.
C21_IndependentRecords ==
  [][/\ DOMAIN inflight \subseteq DOMAIN inflight' => riskAssessments' = riskAssessments
     /\ \A slot \in DOMAIN inflight :
          slot \notin DOMAIN inflight' =>
            IF res' = 201
            THEN /\ nextId' \notin DOMAIN riskAssessments
                 /\ DOMAIN riskAssessments' = DOMAIN riskAssessments \cup {nextId'}
                 /\ \A id \in DOMAIN riskAssessments : riskAssessments'[id] = riskAssessments[id]
                 /\ riskAssessments'[nextId'].userId = Id(inflight[slot].userId)
                 /\ riskAssessments'[nextId'].riskFactors = Arr(inflight[slot].riskAnalysis.riskFactors)
                 /\ \A k \in DOMAIN Observation(inflight[slot].body) :
                      /\ k \in DOMAIN riskAssessments'[nextId']
                      /\ riskAssessments'[nextId'][k] = inflight[slot].body[k]
            ELSE riskAssessments' = riskAssessments]_vars

C21_Witness ==
  /\ res = 201
  /\ DOMAIN riskAssessments = {1}
  /\ DOMAIN inflight = {2}
  /\ inflight[2].pc = "insert"
  /\ Id(inflight[2].userId) # riskAssessments[1].userId
  /\ inflight[2].body # created[1].body

\* C22: whoever a request that reads or writes application data comes from
\* is signed in: every step of a community route that writes, or that
\* answers with posts or comments, is taken by a requester with a session.
C22_EveryRouteAuthenticated ==
  [][\A who \in Requesters :
       (\/ GetCommunityPosts(who) /\ json' # Arr(<<>>)
        \/ \E id \in PathIds : GetPostComments(who, RecordId(id)) /\ json' # Arr(<<>>)
        \/ \E body \in PostBodies : CreatePost(who, body)
        \/ \E id \in PathIds : LikePost(who, id)
        \/ \E id \in PathIds, body \in CommentBodies : CreateComment(who, RecordId(id), body))
       => isAuthenticated(who)]_vars

\* C27: a post enters the table with likes 0; a like answered with 200 raises
\* the likes of the post of the path by exactly 1 and changes no other post;
\* and no step lowers the likes of a post.  Likes being single steps, n of
\* them on one post in any order raise its likes by n.
C27_LikesCount ==
  /\ [][\A id \in DOMAIN communityPosts' :
          IF id \in DOMAIN communityPosts
          THEN communityPosts'[id].likes.n >= communityPosts[id].likes.n
          ELSE communityPosts'[id].likes = Num(0)]_vars
  /\ [][\A u \in UserIds, id \in PathIds :
          (LikePost(u, id) /\ res' = 200) =>
            /\ id \in DOMAIN communityPosts
            /\ DOMAIN communityPosts' = DOMAIN communityPosts
            /\ communityPosts'[id].likes = Num(communityPosts[id].likes.n + 1)
            /\ \A other \in DOMAIN communityPosts \ {id} :
                 communityPosts'[other] = communityPosts[other]]_vars

C27_Witness ==
  /\ res = 200
  /\ \E a \in DOMAIN communityPosts : \E b \in DOMAIN communityPosts :
       /\ communityPosts[a].likes = Num(2)
       /\ communityPosts[b].likes = Num(0)
       /\ communityPosts[a].userId # communityPosts[b].userId

\* C24: a PATCH or DELETE of an appointment or an immunization that changes
\* or removes a record is made by the user who owns the record.
C24_OnlyOwnerChanges ==
  [][\A u \in UserIds, id \in PathIds :
       /\ (ancAppointments' # ancAppointments
            /\ (\/ DeleteAppointment(u, id)
                \/ \E updates \in AppointmentUpdates : PatchAppointment(u, id, updates)))
          => ancAppointments[id].userId = Id(u)
       /\ (immunizations' # immunizations
            /\ (\/ DeleteImmunization(u, id)
                \/ \E updates \in ImmunizationUpdates : PatchImmunization(u, id, updates)))
          => immunizations[id].userId = Id(u)]_vars

\* C25: a PATCH /api/auth/user by u, whatever its body, leaves the user row
\* of every other user as it was.
C25_OnlyOwnProfile ==
  [][\A u \in UserIds, updates \in ProfileBodies :
       PatchUser(u, updates) => \A t \in UserIds \ {u} : users'[t] = users[t]]_vars

\* C28: a create request whose input fails validation is answered with 400
\* and leaves every table as it was.
C28_InvalidCreateIs400 ==
  [][/\ \A u \in UserIds :
          /\ \A body \in AppointmentBodies :
               (CreateAppointment(u, body)
                  /\ ~parse(insertAncAppointmentSchema, Spread(body, [userId |-> Id(u)])).ok)
               => (res' = 400 /\ UNCHANGED tableVars)
          /\ \A body \in ImmunizationBodies :
               (CreateImmunization(u, body)
                  /\ ~parse(insertImmunizationSchema, Spread(body, [userId |-> Id(u)])).ok)
               => (res' = 400 /\ UNCHANGED tableVars)
          /\ \A body \in PostBodies :
               (CreatePost(u, body)
                  /\ ~parse(insertCommunityPostSchema, Spread(body, [userId |-> Id(u)])).ok)
               => (res' = 400 /\ UNCHANGED tableVars)
          /\ \A body \in CommentBodies, id \in PathIds :
               (CreateComment(u, RecordId(id), body)
                  /\ ~parse(insertCommunityCommentSchema,
                            Spread(body, [userId |-> Id(u), postId |-> RecordId(id)])).ok)
               => (res' = 400 /\ UNCHANGED tableVars)
     /\ \A slot \in DOMAIN inflight :
          (slot \notin DOMAIN inflight' /\ ~BodyValidates(inflight[slot].body))
          => (res' = 400 /\ UNCHANGED tableVars)]_vars

\* table without the record under id
Removed(table, id) == [k \in DOMAIN table \ {id} |-> table[k]]

\* C29: a PATCH or DELETE of an appointment or immunization, or a like of a
\* post, whose id matches no record is answered with 404 and changes no user
\* and no table; a DELETE whose id matches a record is answered with 204 and
\* removes that record and nothing else.
C29_MissingIs404 ==
  [][\A u \in UserIds, id \in PathIds :
       /\ (id \notin DOMAIN ancAppointments
             /\ PatchAppointment(u, id, [status |-> Id("cancelled")]))
          => (res' = 404 /\ UNCHANGED <<users, tableVars>>)
       /\ (id \notin DOMAIN immunizations
             /\ PatchImmunization(u, id, [status |-> Id("overdue")]))
          => (res' = 404 /\ UNCHANGED <<users, tableVars>>)
       /\ (id \notin DOMAIN communityPosts /\ LikePost(u, id))
          => (res' = 404 /\ UNCHANGED <<users, tableVars>>)
       /\ DeleteAppointment(u, id) =>
            IF id \in DOMAIN ancAppointments
            THEN /\ res' = 204
                 /\ ancAppointments' = Removed(ancAppointments, id)
                 /\ UNCHANGED <<users, riskAssessments, immunizations, communityPosts, communityComments>>
            ELSE res' = 404 /\ UNCHANGED <<users, tableVars>>
       /\ DeleteImmunization(u, id) =>
            IF id \in DOMAIN immunizations
            THEN /\ res' = 204
                 /\ immunizations' = Removed(immunizations, id)
                 /\ UNCHANGED <<users, ancAppointments, riskAssessments, communityPosts, communityComments>>
            ELSE res' = 404 /\ UNCHANGED <<users, tableVars>>]_vars

C29_Witness ==
  /\ res = 204
  /\ nextId = 2
  /\ 1 \notin DOMAIN ancAppointments \cup DOMAIN immunizations \cup DOMAIN communityPosts
  /\ 2 \in DOMAIN ancAppointments \cup DOMAIN immunizations

\* effect a is made before effect b in the sequence of effects ef
Before(ef, a, b) == \E i, j \in 1..Len(ef) : i < j /\ ef[i] = a /\ ef[j] = b

\* C23: onSuccess invalidates both cached queries, each before its success
\* toast; onError invalidates no query and leaves the form as visible as it was.
C23_InvalidateOnSuccessOnly ==
  [][/\ onSuccess =>
          /\ QueryKeys \subseteq client'.stale
          /\ \A key \in QueryKeys :
               Before(client'.effects, <<"invalidateQueries", key>>, <<"toast", "Assessment Complete">>)
     /\ \A status \in Statuses :
          onError(status) =>
            /\ client'.stale = client.stale
            /\ client'.isFormVisible = client.isFormVisible
            /\ \A i \in 1..Len(client'.effects) : client'.effects[i][1] = "toast"
                                                  \/ client'.effects[i][1] = "setTimeout"]_vars

C23_Witness ==
  /\ client.mutation = "success"
  /\ client.toasts = "Assessment Complete"
  /\ client.stale = {"/api/risk-assessments/latest"}
  /\ ~client.isFormVisible

====
